---- MODULE Spec2Model ----
(***************************************************************************)
(* Model of src/send.py: PaperCoV2, a templated email campaign sender over *)
(* SMTP.  One run of PaperCoV2.run() is modelled from the call of run() to *)
(* the termination of the process.  The file system (CSV table, template   *)
(* files) and the SMTP server are the environment: what they answer is     *)
(* drawn from small sets at the step that asks them.                       *)
(***************************************************************************)
EXTENDS Integers, Sequences, FiniteSets, TLC

\* ---------------------------------------------------------------- bounds
MaxRows == 2

\* ------------------------------------------------------- values and inputs
\* Python's None (a missing cell, a missing argument, the restkey of DictReader).
None == "None"

EmailCells == {None, "", "a@x", "b@x"}
NameCells == {None, "<Ada>"}
SingleAddrs == {"s@x"}

\* The header rows of the tables read: with and without an Email column.
Headers == {{"Email", "Name"}, {"Name"}}

\* A row csv.DictReader (line 60) yields under header hdr: one key per column,
\* None for a cell the row lacks, and the surplus cells of a row longer than
\* the header under the key None.
RowOf(hdr, e, n, rest) ==
  [k \in hdr \cup (IF rest THEN {None} ELSE {}) |->
     IF k = "Email" THEN e ELSE IF k = "Name" THEN n ELSE "['x']"]

\* The rows drawn: every combination of cells, and for each Email cell one
\* row with surplus cells.
DictReaderRows(hdr) ==
  LET emails == IF "Email" \in hdr THEN EmailCells ELSE {None}
  IN {RowOf(hdr, e, n, FALSE) : e \in emails, n \in NameCells}
       \cup {RowOf(hdr, e, "<Ada>", TRUE) : e \in emails}

RECURSIVE SeqsUpTo(_, _)
SeqsUpTo(S, n) ==
  IF n = 0 THEN {<<>>}
  ELSE LET shorter == SeqsUpTo(S, n - 1)
       IN shorter \cup {Append(s, x) : s \in {t \in shorter : Len(t) = n - 1}, x \in S}

Tables == UNION {SeqsUpTo(DictReaderRows(hdr), MaxRows) : hdr \in Headers}

\* The value of --data after eval(), in single mode.
SingleDatas == {[k \in {} |-> None], [k \in {"Name"} |-> None], [k \in {"Name"} |-> "<Ada>"]}

\* A template source: whether Jinja2 can parse it, and the variables it uses.
TemplateSources ==
  { [text |-> "Hi {{ Name }} {{ Email }}", syntaxOk |-> TRUE,  refs |-> {"Email", "Name"}],
    [text |-> "Call {{ Phone }}",          syntaxOk |-> TRUE,  refs |-> {"Phone"}],
    [text |-> "Hi {{ Name",                syntaxOk |-> FALSE, refs |-> {}] }

NoTemplate == [text |-> "", syntaxOk |-> TRUE, refs |-> {}]

\* --------------------------------------------------------- pure functions
\* load_csv_data, line 61: the rows whose Email is truthy.
HasEmail_NotNone(row) == "Email" \in DOMAIN row /\ row["Email"] # None
HasEmail(row) == "Email" \in DOMAIN row /\ row["Email"] # None /\ row["Email"] # ""
FilterRows(rows) == SelectSeq(rows, HasEmail)

\* lines 101 and 141: None becomes '', everything else its str().
SafeRow(row) == [k \in DOMAIN row |-> IF row[k] = None THEN "" ELSE row[k]]

\* lines 101-102: the single recipient's data, with Email forced to the address.
SafeData(d, addr) ==
  [k \in DOMAIN d \cup {"Email"} |->
     IF k = "Email" THEN addr ELSE IF d[k] = None THEN "" ELSE d[k]]

\* autoescape=True (line 50): markup characters of a bound value are escaped.
Escape(v) == IF v = "<Ada>" THEN "&lt;Ada&gt;" ELSE v

\* env.from_string (lines 105-106, 144-145) raises TemplateSyntaxError.
Compiles(t) == t.syntaxOk

\* Template.render(**ctx) (lines 109-110, 148-149): a non-string keyword is a
\* TypeError; StrictUndefined (line 49) makes an unbound variable an error.
RenderOk_AnyKeyword(t, ctx) == t.refs \subseteq DOMAIN ctx
RenderOk(t, ctx) == None \notin DOMAIN ctx /\ t.refs \subseteq DOMAIN ctx
Render(t, ctx) == [text |-> t.text, vals |-> [f \in t.refs |-> Escape(ctx[f])]]

\* Lines 141-156 and 101-117 up to the message: does building the message
\* raise, and the message built otherwise.
BuildOk(h, b, ctx) == Compiles(h) /\ Compiles(b) /\ RenderOk(h, ctx) /\ RenderOk(b, ctx)
BuildMsg(h, b, ctx, to) == [To |-> to, Subject |-> Render(h, ctx), Html |-> Render(b, ctx)]

\* ------------------------------------------------------------------ state
VARIABLES
  pc,               \* position of the process in run() and the method it calls
  single_email,     \* self.single_email (None when --single-email is absent)
  single_data,      \* self.single_data
  verbose,          \* self.verbose
  csv_path,         \* self.csv_path (None when --csv is absent)
  csv_readable,     \* whether open() and DictReader succeed on csv_path
  csv_rows,         \* what DictReader yielded when the table was read
  data,             \* local data of send_batch_emails
  body_template,    \* local body_template
  header_template,  \* local header_template
  session,          \* state of the smtplib.SMTP object `server`
  i,                \* position of `for row in data` (1-based)
  msg,              \* local msg: <<>> while unbound, <<m>> afterwards
  attempts,         \* indexes of data whose loop body was entered, in order
  handed,           \* calls of server.send_message, in order
  outcome,          \* per finished attempt: "delivered" or "failed"
  wire,             \* operations issued on the SMTP connection, in order
  log,              \* records written through self.logger
  exitCode          \* -1 while running, then the exit status of the process

vars == <<pc, single_email, single_data, verbose, csv_path, csv_readable, csv_rows, data, body_template,
          header_template, session, i, msg, attempts, handed, outcome, wire,
          log, exitCode>>

Running == -1

Logged(level, event, who) == Append(log, [level |-> level, event |-> event, who |-> who])

\* sys.exit(1) after logger.error: SystemExit is not an Exception, so no
\* enclosing `except Exception` (lines 123, 166, 179) catches it.
Die(event, who) ==
  /\ log' = Logged("ERROR", event, who)
  /\ exitCode' = 1
  /\ pc' = "exited"

\* What the constructor stores (lines 18-28) and main() passes (lines 204-221):
\* one of --csv and --single-email is given; --data is evaluated only in
\* single mode, and `single_data or {}` makes it a dict.
Init ==
  /\ pc = "run"
  /\ single_email \in {None, ""} \cup SingleAddrs
  /\ csv_path \in {None, "table.csv"}
  /\ (single_email \in {None, ""}) => csv_path # None
  /\ csv_readable \in BOOLEAN
  /\ (csv_path = None) => ~csv_readable
  /\ single_data \in SingleDatas
  /\ (single_email \in {None, ""}) => single_data = [k \in {} |-> None]
  /\ verbose \in BOOLEAN
  /\ csv_rows = <<>>
  /\ data = <<>>
  /\ body_template = NoTemplate
  /\ header_template = NoTemplate
  /\ session = "none"
  /\ i = 1
  /\ msg = <<>>
  /\ attempts = <<>>
  /\ handed = <<>>
  /\ outcome = <<>>
  /\ wire = <<>>
  /\ log = <<>>
  /\ exitCode = Running

\* run(), lines 172-177: the test of self.single_email picks the mode.
SingleMode == single_email # None /\ single_email # ""

\* Mutant: run() tests self.csv_path first.
Run_CsvFirst ==
  /\ pc = "run"
  /\ pc' = IF csv_path # None THEN "b_load_csv" ELSE "s_load_body"
  /\ UNCHANGED <<single_email, single_data, verbose, csv_path, csv_readable, csv_rows, data, body_template,
                 header_template, session, i, msg, attempts, handed, outcome, wire,
                 log, exitCode>>

Run ==
  /\ pc = "run"
  /\ pc' = IF SingleMode THEN "s_load_body" ELSE "b_load_csv"
  /\ UNCHANGED <<single_email, single_data, verbose, csv_path, csv_readable, csv_rows, data, body_template,
                 header_template, session, i, msg, attempts, handed, outcome, wire,
                 log, exitCode>>

\* Mutant: the handler of load_csv_data logs and returns no rows.
LoadCsvData_Continues ==
  /\ pc = "b_load_csv"
  /\ \/ /\ ~csv_readable
        /\ log' = Logged("ERROR", "Error loading CSV", csv_path)
        /\ UNCHANGED <<csv_rows, data>>
     \/ /\ csv_readable
        /\ \E rows \in Tables :
             /\ csv_rows' = rows
             /\ data' = FilterRows(rows)
        /\ log' = Logged("INFO", "Loaded valid email entries from CSV", "")
  /\ pc' = "b_load_body"
  /\ UNCHANGED <<single_email, single_data, verbose, csv_path, csv_readable, body_template,
                 header_template, session, i, msg, attempts, handed, outcome, wire, exitCode>>

\* load_csv_data, lines 56-66, called at line 129.
LoadCsvData ==
  /\ pc = "b_load_csv"
  /\ \/ /\ ~csv_readable
        /\ Die("Error loading CSV", csv_path)
        /\ UNCHANGED <<csv_rows, data>>
     \/ /\ csv_readable
        /\ \E rows \in Tables :
             /\ csv_rows' = rows
             /\ data' = FilterRows(rows)
        /\ log' = Logged("INFO", "Loaded valid email entries from CSV", "")
        /\ pc' = "b_load_body"
        /\ UNCHANGED exitCode
  /\ UNCHANGED <<single_email, single_data, verbose, csv_path, csv_readable, body_template, header_template,
                 session, i, msg, attempts, handed, outcome, wire>>

\* load_email_body, lines 68-77, called at lines 92 and 130.
LoadEmailBody ==
  /\ pc \in {"b_load_body", "s_load_body"}
  /\ \/ /\ Die("Error loading email body template", "")
        /\ UNCHANGED body_template
     \/ /\ \E t \in TemplateSources : body_template' = t
        /\ log' = Logged("INFO", "Successfully loaded email body template", "")
        /\ pc' = IF pc = "b_load_body" THEN "b_load_header" ELSE "s_load_header"
        /\ UNCHANGED exitCode
  /\ UNCHANGED <<single_email, single_data, verbose, csv_path, csv_readable, csv_rows, data, header_template,
                 session, i, msg, attempts, handed, outcome, wire>>

\* load_email_header, lines 79-88, called at lines 93 and 131.
LoadEmailHeader ==
  /\ pc \in {"b_load_header", "s_load_header"}
  /\ \/ /\ Die("Error loading email header template", "")
        /\ UNCHANGED header_template
     \/ /\ \E t \in TemplateSources : header_template' = t
        /\ log' = Logged("INFO", "Successfully loaded email header template", "")
        /\ pc' = IF pc = "b_load_header" THEN "b_connect" ELSE "s_connect"
        /\ UNCHANGED exitCode
  /\ UNCHANGED <<single_email, single_data, verbose, csv_path, csv_readable, csv_rows, data, body_template,
                 session, i, msg, attempts, handed, outcome, wire>>

\* ----------------------------------------------------------- SMTP session
\* An operation on the connection and how it ended: "ok", "error" (an SMTP
\* error reply or a refused connection) or "disconnected" (the connection
\* is lost).
Op(name, reply) == [op |-> name, reply |-> reply]

\* SMTP.__exit__ (leaving the `with` of lines 96 and 134): QUIT, then close().
\* On a dead connection QUIT raises SMTPServerDisconnected, which __exit__
\* swallows.
QuitReplies == {"ok", "error"}
Quit(q) == wire \o <<Op("quit", IF session = "broken" THEN "disconnected" ELSE q),
                     Op("close", "ok")>>

\* The handler of the method pc is in: line 124 or line 167.
Handler == IF pc \in {"s_connect", "s_starttls", "s_login", "s_build", "s_send", "s_end"}
             THEN "Error sending single email" ELSE "SMTP connection error"

\* smtplib.SMTP(host, port), lines 96 and 134: the constructor connects.
Connect ==
  /\ pc \in {"b_connect", "s_connect"}
  /\ \/ /\ wire' = Append(wire, Op("connect", "ok"))
        /\ session' = "connected"
        /\ pc' = IF pc = "b_connect" THEN "b_starttls" ELSE "s_starttls"
        /\ UNCHANGED <<log, exitCode>>
     \/ /\ wire' = Append(wire, Op("connect", "error"))
        /\ Die(Handler, "")
        /\ UNCHANGED session
  /\ UNCHANGED <<single_email, single_data, verbose, csv_path, csv_readable, csv_rows, data,
                 body_template, header_template, i, msg, attempts, handed, outcome>>

\* Mutant: the server object is not a context manager; a failed starttls
\* reaches the handler with the connection left open.
StartTls_Leaks ==
  /\ pc \in {"b_starttls", "s_starttls"}
  /\ \/ /\ wire' = Append(wire, Op("starttls", "ok"))
        /\ session' = "tls"
        /\ pc' = IF pc = "b_starttls" THEN "b_login" ELSE "s_login"
        /\ UNCHANGED <<log, exitCode>>
     \/ /\ wire' = Append(wire, Op("starttls", "error"))
        /\ UNCHANGED session
        /\ Die(Handler, "")
  /\ UNCHANGED <<single_email, single_data, verbose, csv_path, csv_readable, csv_rows, data,
                 body_template, header_template, i, msg, attempts, handed, outcome>>

\* server.starttls(), lines 97 and 135.
StartTls ==
  /\ pc \in {"b_starttls", "s_starttls"}
  /\ \/ /\ wire' = Append(wire, Op("starttls", "ok"))
        /\ session' = "tls"
        /\ pc' = IF pc = "b_starttls" THEN "b_login" ELSE "s_login"
        /\ UNCHANGED <<log, exitCode>>
     \/ /\ \E q \in QuitReplies :
             wire' = Append(wire, Op("starttls", "error")) \o
                       <<Op("quit", q), Op("close", "ok")>>
        /\ session' = "closed"
        /\ Die(Handler, "")
  /\ UNCHANGED <<single_email, single_data, verbose, csv_path, csv_readable, csv_rows, data,
                 body_template, header_template, i, msg, attempts, handed, outcome>>

\* Mutant: a failed login is ignored and the body of the `with` runs.
Login_Ignored ==
  /\ pc \in {"b_login", "s_login"}
  /\ \E r \in {"ok", "error"} : wire' = Append(wire, Op("login", r))
  /\ session' = "authed"
  /\ pc' = IF pc = "b_login" THEN "b_loop" ELSE "s_build"
  /\ UNCHANGED <<log, exitCode>>
  /\ UNCHANGED <<single_email, single_data, verbose, csv_path, csv_readable, csv_rows, data,
                 body_template, header_template, i, msg, attempts, handed, outcome>>

\* server.login(user, password), lines 98 and 136.
Login ==
  /\ pc \in {"b_login", "s_login"}
  /\ \/ /\ wire' = Append(wire, Op("login", "ok"))
        /\ session' = "authed"
        /\ pc' = IF pc = "b_login" THEN "b_loop" ELSE "s_build"
        /\ UNCHANGED <<log, exitCode>>
     \/ /\ \E q \in QuitReplies :
             wire' = Append(wire, Op("login", "error")) \o
                       <<Op("quit", q), Op("close", "ok")>>
        /\ session' = "closed"
        /\ Die(Handler, "")
  /\ UNCHANGED <<single_email, single_data, verbose, csv_path, csv_readable, csv_rows, data,
                 body_template, header_template, i, msg, attempts, handed, outcome>>

\* What the server answers to one send_message on an authenticated session:
\* accepted, refused (an SMTP error reply; the session stays usable), or the
\* connection is lost (SMTPServerDisconnected; the session is dead).
SendReplies == {"ok", "refused", "disconnected"}

\* --------------------------------------------------------------- batch mode
\* Mutant: the message is built for the first row only and reused afterwards.
BatchBuild_Reuses ==
  /\ pc = "b_loop"
  /\ i <= Len(data)
  /\ attempts' = Append(attempts, i)
  /\ LET row == data[i]
         ctx == SafeRow(row)
     IN IF BuildOk(header_template, body_template, ctx)
          THEN /\ msg' = IF msg = <<>>
                           THEN <<BuildMsg(header_template, body_template, ctx, row["Email"])>>
                           ELSE msg
               /\ pc' = "b_send"
               /\ UNCHANGED <<i, outcome, log>>
          ELSE /\ log' = Logged("ERROR", "Error sending email to", row["Email"])
               /\ outcome' = Append(outcome, "failed")
               /\ i' = i + 1
               /\ UNCHANGED <<pc, msg>>
  /\ UNCHANGED <<single_email, single_data, verbose, csv_path, csv_readable, csv_rows, data,
                 body_template, header_template, session, handed, wire, exitCode>>

\* Mutant: the loop walks the records from the last to the first.
BatchBuild_Reversed ==
  /\ pc = "b_loop"
  /\ i <= Len(data)
  /\ attempts' = Append(attempts, Len(data) + 1 - i)
  /\ LET row == data[Len(data) + 1 - i]
         ctx == SafeRow(row)
     IN IF BuildOk(header_template, body_template, ctx)
          THEN /\ msg' = <<BuildMsg(header_template, body_template, ctx, row["Email"])>>
               /\ pc' = "b_send"
               /\ UNCHANGED <<i, outcome, log>>
          ELSE /\ log' = Logged("ERROR", "Error sending email to", row["Email"])
               /\ outcome' = Append(outcome, "failed")
               /\ i' = i + 1
               /\ UNCHANGED <<pc, msg>>
  /\ UNCHANGED <<single_email, single_data, verbose, csv_path, csv_readable, csv_rows, data,
                 body_template, header_template, session, handed, wire, exitCode>>

\* Mutant: after a row whose message cannot be built the loop skips a row.
BatchBuild_Skips ==
  /\ pc = "b_loop"
  /\ i <= Len(data)
  /\ attempts' = Append(attempts, i)
  /\ LET row == data[i]
         ctx == SafeRow(row)
     IN IF BuildOk(header_template, body_template, ctx)
          THEN /\ msg' = <<BuildMsg(header_template, body_template, ctx, row["Email"])>>
               /\ pc' = "b_send"
               /\ UNCHANGED <<i, outcome, log>>
          ELSE /\ log' = Logged("ERROR", "Error sending email to", row["Email"])
               /\ outcome' = Append(outcome, "failed")
               /\ i' = i + 2
               /\ UNCHANGED <<pc, msg>>
  /\ UNCHANGED <<single_email, single_data, verbose, csv_path, csv_readable, csv_rows, data,
                 body_template, header_template, session, handed, wire, exitCode>>

\* send_batch_emails, lines 138-156 with the handler of lines 163-164: the
\* loop takes the next row, builds its message or logs the error.
BatchBuild ==
  /\ pc = "b_loop"
  /\ i <= Len(data)
  /\ attempts' = Append(attempts, i)
  /\ LET row == data[i]
         ctx == SafeRow(row)
     IN IF BuildOk(header_template, body_template, ctx)
          THEN /\ msg' = <<BuildMsg(header_template, body_template, ctx, row["Email"])>>
               /\ pc' = "b_send"
               /\ UNCHANGED <<i, outcome, log>>
          ELSE /\ log' = Logged("ERROR", "Error sending email to", row["Email"])
               /\ outcome' = Append(outcome, "failed")
               /\ i' = i + 1
               /\ UNCHANGED <<pc, msg>>
  /\ UNCHANGED <<single_email, single_data, verbose, csv_path, csv_readable, csv_rows, data,
                 body_template, header_template, session, handed, wire, exitCode>>

\* Mutant: no per-row handler; a failed send reaches the handler of line 166.
BatchSend_Escapes ==
  /\ pc = "b_send"
  /\ handed' = Append(handed, [idx |-> i, msg |-> msg[1], session |-> session])
  /\ \E r \in SendReplies :
       /\ wire' = Append(wire, Op("send", IF r = "refused" THEN "error" ELSE r))
       /\ IF r = "ok"
            THEN /\ outcome' = Append(outcome, "delivered")
                 /\ log' = IF verbose THEN Logged("INFO", "Sent email to", data[i]["Email"])
                                      ELSE log
                 /\ i' = i + 1
                 /\ pc' = "b_loop"
                 /\ UNCHANGED <<session, exitCode>>
            ELSE /\ outcome' = Append(outcome, "failed")
                 /\ session' = "closed"
                 /\ Die(Handler, "")
                 /\ UNCHANGED i
  /\ UNCHANGED <<single_email, single_data, verbose, csv_path, csv_readable, csv_rows, data,
                 body_template, header_template, msg, attempts>>

\* Mutant: after a refused send the handler drops the session and opens a new one.
BatchSend_Reconnects ==
  /\ pc = "b_send"
  /\ handed' = Append(handed, [idx |-> i, msg |-> msg[1], session |-> session])
  /\ \E r \in SendReplies :
       /\ (session = "broken") => r = "disconnected"
       /\ wire' = IF r = "refused"
                    THEN wire \o <<Op("send", "error"), Op("close", "ok"), Op("connect", "ok"),
                                   Op("starttls", "ok"), Op("login", "ok")>>
                    ELSE Append(wire, Op("send", r))
       /\ session' = IF r = "disconnected" THEN "broken" ELSE session
       /\ IF r = "ok"
            THEN /\ outcome' = Append(outcome, "delivered")
                 /\ log' = IF verbose THEN Logged("INFO", "Sent email to", data[i]["Email"])
                                      ELSE log
            ELSE /\ outcome' = Append(outcome, "failed")
                 /\ log' = Logged("ERROR", "Error sending email to", data[i]["Email"])
  /\ i' = i + 1
  /\ pc' = "b_loop"
  /\ UNCHANGED <<single_email, single_data, verbose, csv_path, csv_readable, csv_rows, data,
                 body_template, header_template, msg, attempts, exitCode>>

\* send_batch_emails, lines 158-161 with the handler of lines 163-164.
BatchSend ==
  /\ pc = "b_send"
  /\ handed' = Append(handed, [idx |-> i, msg |-> msg[1], session |-> session])
  /\ \E r \in SendReplies :
       /\ (session = "broken") => r = "disconnected"
       /\ wire' = Append(wire, Op("send", IF r = "refused" THEN "error" ELSE r))
       /\ session' = IF r = "disconnected" THEN "broken" ELSE session
       /\ IF r = "ok"
            THEN /\ outcome' = Append(outcome, "delivered")
                 /\ log' = IF verbose THEN Logged("INFO", "Sent email to", data[i]["Email"])
                                      ELSE log
            ELSE /\ outcome' = Append(outcome, "failed")
                 /\ log' = Logged("ERROR", "Error sending email to", data[i]["Email"])
  /\ i' = i + 1
  /\ pc' = "b_loop"
  /\ UNCHANGED <<single_email, single_data, verbose, csv_path, csv_readable, csv_rows, data,
                 body_template, header_template, msg, attempts, exitCode>>

\* Leaving the `with` of line 134 after the loop: __exit__ sends QUIT and
\* raises SMTPResponseException on any reply but 221, which the handler of
\* lines 166-168 turns into exit 1.
BatchEnd ==
  /\ pc = "b_loop"
  /\ i > Len(data)
  /\ session' = "closed"
  /\ \E q \in QuitReplies :
       /\ wire' = Quit(q)
       /\ IF q = "ok" \/ session = "broken"
            THEN /\ pc' = "b_return"
                 /\ UNCHANGED <<log, exitCode>>
            ELSE Die(Handler, "")
  /\ UNCHANGED <<single_email, single_data, verbose, csv_path, csv_readable, csv_rows, data,
                 body_template, header_template, i, msg, attempts, handed, outcome>>

\* -------------------------------------------------------------- single mode
\* send_single_email, lines 100-117; any exception leaves the `with` and
\* reaches the handler of lines 123-125.
SingleBuild ==
  /\ pc = "s_build"
  /\ attempts' = Append(attempts, 1)
  /\ LET ctx == SafeData(single_data, single_email)
     IN IF BuildOk(header_template, body_template, ctx)
          THEN /\ msg' = <<BuildMsg(header_template, body_template, ctx, single_email)>>
               /\ pc' = "s_send"
               /\ UNCHANGED <<outcome, log, exitCode, session, wire>>
          ELSE /\ outcome' = Append(outcome, "failed")
               /\ session' = "closed"
               /\ \E q \in QuitReplies : wire' = Quit(q)
               /\ Die(Handler, single_email)
               /\ UNCHANGED msg
  /\ UNCHANGED <<single_email, single_data, verbose, csv_path, csv_readable, csv_rows, data,
                 body_template, header_template, i, handed>>

\* send_single_email, lines 119-121, with the handler of lines 123-125.
SingleSend ==
  /\ pc = "s_send"
  /\ handed' = Append(handed, [idx |-> 1, msg |-> msg[1], session |-> session])
  /\ \E r \in SendReplies :
       IF r = "ok"
         THEN /\ wire' = Append(wire, Op("send", "ok"))
              /\ outcome' = Append(outcome, "delivered")
              /\ log' = Logged("INFO", "Successfully sent single email to", single_email)
              /\ pc' = "s_end"
              /\ UNCHANGED <<session, exitCode>>
         ELSE /\ outcome' = Append(outcome, "failed")
              /\ session' = "closed"
              /\ \E q \in QuitReplies :
                   wire' = Append(wire, Op("send", IF r = "refused" THEN "error" ELSE r)) \o
                             <<Op("quit", IF r = "disconnected" THEN r ELSE q),
                               Op("close", "ok")>>
              /\ Die(Handler, single_email)
  /\ UNCHANGED <<single_email, single_data, verbose, csv_path, csv_readable, csv_rows, data,
                 body_template, header_template, i, msg, attempts>>

\* Leaving the `with` of line 96 after the send.
SingleEnd ==
  /\ pc = "s_end"
  /\ session' = "closed"
  /\ \E q \in QuitReplies :
       /\ wire' = Quit(q)
       /\ IF q = "ok"
            THEN /\ pc' = "s_return"
                 /\ UNCHANGED <<log, exitCode>>
            ELSE Die(Handler, single_email)
  /\ UNCHANGED <<single_email, single_data, verbose, csv_path, csv_readable, csv_rows, data,
                 body_template, header_template, i, msg, attempts, handed, outcome>>

\* run(), lines 175 and 178: the method returned; run() logs and returns, and
\* the process ends with status 0.
RunReturn ==
  /\ pc \in {"b_return", "s_return"}
  /\ log' = Logged("INFO", IF pc = "s_return" THEN "Single email sent successfully"
                                              ELSE "Email campaign completed", "")
  /\ exitCode' = 0
  /\ pc' = "exited"
  /\ UNCHANGED <<single_email, single_data, verbose, csv_path, csv_readable, csv_rows, data,
                 body_template, header_template, session, i, msg, attempts, handed,
                 outcome, wire>>

\* smtplib.SMTP(host, port) is built without a timeout (lines 96, 134), so the
\* socket blocks: when the server never answers, the call in progress
\* (connect, starttls, login, send_message or the QUIT of __exit__) never
\* returns and the process stays in it.
NoAnswer ==
  /\ \/ pc \in {"b_connect", "s_connect", "b_starttls", "s_starttls", "b_login", "s_login", "s_end"}
     \/ pc \in {"b_send", "s_send"} /\ session = "authed"
     \/ pc = "b_loop" /\ i > Len(data) /\ session = "authed"
  /\ handed' = IF pc \in {"b_send", "s_send"}
                 THEN Append(handed, [idx |-> i, msg |-> msg[1], session |-> session])
                 ELSE handed
  /\ pc' = "blocked"
  /\ UNCHANGED <<single_email, single_data, verbose, csv_path, csv_readable, csv_rows, data,
                 body_template, header_template, session, i, msg, attempts, outcome,
                 wire, log, exitCode>>

Next ==
  \/ Run
  \/ LoadCsvData
  \/ LoadEmailBody
  \/ LoadEmailHeader
  \/ Connect
  \/ StartTls
  \/ Login
  \/ BatchBuild
  \/ BatchSend
  \/ BatchEnd
  \/ SingleBuild
  \/ SingleSend
  \/ SingleEnd
  \/ RunReturn
  \/ NoAnswer

Spec == Init /\ [][Next]_vars

\* One sequential process: a step that can be taken is taken.
FairSpec == Spec /\ WF_vars(Next)

TypeOK ==
  /\ pc \in {"run", "b_load_csv", "b_load_body", "b_load_header", "b_connect",
             "b_starttls", "b_login", "b_loop", "b_send", "b_return",
             "s_load_body", "s_load_header", "s_connect", "s_starttls", "s_login",
             "s_build", "s_send", "s_end", "s_return", "exited", "blocked"}
  /\ session \in {"none", "connected", "tls", "authed", "broken", "closed"}
  /\ exitCode \in {Running, 0, 1}
  /\ i \in 1..(Len(data) + 1)
  /\ Len(msg) <= 1

\* ================================================================= claims
\* Vocabulary of the claims, read off the state.
BatchMode == ~SingleMode
Finished == pc = "exited"
Established == \E k \in 1..Len(wire) : wire[k] = Op("login", "ok")
EstablishFailed ==
  \E k \in 1..Len(wire) : wire[k].op \in {"connect", "starttls", "login"} /\ wire[k].reply # "ok"
HandedFor(r) == {j \in 1..Len(handed) : handed[j].idx = r}
Attempted(r) == \E k \in 1..Len(attempts) : attempts[k] = r

\* The keys bound as template variables for recipient r.
FieldsOf(r) == IF SingleMode THEN DOMAIN single_data \cup {"Email"} ELSE DOMAIN data[r]
\* Building the message of recipient r raises: a template does not parse, a
\* template uses a variable the record lacks, or a key is not a string.
RenderFails(r) ==
  \/ ~header_template.syntaxOk
  \/ ~body_template.syntaxOk
  \/ \E f \in header_template.refs \cup body_template.refs : f \notin FieldsOf(r)
  \/ None \in FieldsOf(r)

\* C1: failure isolation in batch mode: when the attempt on recipient k ends
\* in a failure and k is not the last recipient, recipient k+1 has been
\* attempted or the loop stands ready to take it next.
C1_FailureIsolation ==
  BatchMode =>
    \A k \in 1..Len(outcome) :
      (outcome[k] = "failed" /\ k < Len(data)) =>
        \/ Attempted(k + 1)
        \/ (i = k + 1 /\ ENABLED BatchBuild)

C1_Witness ==
  /\ BatchMode
  /\ Finished
  /\ Len(data) = 2
  /\ outcome = <<"failed", "delivered">>
  /\ attempts = <<1, 2>>

\* C2: a batch run whose session was established takes every valid record
\* exactly once, in order, hands at most one message per record to the
\* server, and ends every attempt in one outcome, delivered or failed.
C2_OneAttemptPerRecord ==
  BatchMode =>
    /\ \A k \in 1..Len(attempts) : attempts[k] = k
    /\ \A r \in 1..Len(data) : Cardinality(HandedFor(r)) <= 1
    /\ Len(outcome) <= Len(attempts)
    /\ Len(attempts) <= Len(outcome) + 1
    /\ \A k \in 1..Len(outcome) :
         /\ outcome[k] \in {"delivered", "failed"}
         /\ (outcome[k] = "delivered") => Cardinality(HandedFor(k)) = 1
    /\ (Established /\ pc \in {"b_return", "exited"}) =>
         /\ Len(attempts) = Len(data)
         /\ Len(outcome) = Len(data)

C2_Witness ==
  /\ BatchMode
  /\ Finished
  /\ exitCode = 0
  /\ Len(data) = 2
  /\ Len(attempts) = 2
  /\ outcome = <<"delivered", "failed">>
  /\ Len(handed) = 2

\* C3: a recipient whose message cannot be rendered gets no message handed
\* to the server, and the outcome of the attempt is a failure.
C3_RenderFailureNotSent ==
  \A k \in 1..Len(attempts) :
    RenderFails(attempts[k]) =>
      /\ HandedFor(attempts[k]) = {}
      /\ Len(outcome) >= k
      /\ outcome[k] = "failed"

C3_Witness ==
  /\ BatchMode
  /\ Len(attempts) = 2
  /\ RenderFails(2)
  /\ ~RenderFails(1)
  /\ outcome = <<"delivered", "failed">>
  /\ Len(handed) = 1

\* C4: when connect, starttls or login fails, no recipient is attempted, no
\* message is handed to the server, and the process ends with status 1.
C4_EstablishFailureAborts ==
  EstablishFailed =>
    /\ attempts = <<>>
    /\ handed = <<>>
    /\ Finished
    /\ exitCode = 1

C4_Witness ==
  /\ EstablishFailed
  /\ Finished
  /\ BatchMode
  /\ Len(data) = 2
  /\ \E k \in 1..Len(wire) : wire[k] = Op("login", "error")

\* The run states of the specification, read off the terminated process.
LoggedError(event) ==
  \E k \in 1..Len(log) : log[k].level = "ERROR" /\ log[k].event = event
TemplatesLoaded ==
  \E k \in 1..Len(log) : log[k].event = "Successfully loaded email header template"
TemplateCompileFails ==
  TemplatesLoaded /\ (~header_template.syntaxOk \/ ~body_template.syntaxOk)
PreRunFatal ==
  \/ LoggedError("Error loading CSV")
  \/ LoggedError("Error loading email body template")
  \/ LoggedError("Error loading email header template")
  \/ TemplateCompileFails
  \/ EstablishFailed
SessionLost == \E k \in 1..Len(wire) : wire[k] = Op("send", "disconnected")
ChannelFatal == SessionLost \/ \E k \in 1..Len(wire) : wire[k] = Op("quit", "error")
Recipients == IF SingleMode THEN 1 ELSE Len(data)
Completed ==
  /\ Finished
  /\ ~PreRunFatal
  /\ ~ChannelFatal
  /\ Len(outcome) = Recipients

\* C5: the process ends with status 0 exactly when the run is Completed: all
\* recipients processed, no fatal pre-run error and no channel-fatal error.
C5_ExitZeroIffCompleted == Finished => (exitCode = 0 <=> Completed)

\* C6: a template that does not compile ends the run with status 1 before
\* any message is handed to the server.
C6_CompileFailureFatal ==
  (Finished /\ TemplateCompileFails) =>
    /\ exitCode = 1
    /\ handed = <<>>

\* C7: once the session is lost during a batch run, no further message is
\* handed to the server, the outcomes recorded so far stay as they are, and
\* the process does not end with status 0.
C7_SessionLostAborts ==
  [][(BatchMode /\ SessionLost) =>
       /\ handed' = handed
       /\ SubSeq(outcome', 1, Len(outcome)) = outcome
       /\ exitCode' # 0]_vars

\* C8: in both modes a run whose session was established and never became
\* fatally broken, and in which a recipient failed, still processes every
\* recipient and ends Completed with status 0.
C8_RecipientErrorsRecovered ==
  (/\ Finished
   /\ Established
   /\ ~ChannelFatal
   /\ \E k \in 1..Len(outcome) : outcome[k] = "failed") =>
    /\ Len(outcome) = Recipients
    /\ exitCode = 0

\* C9: in batch mode an unreadable recipient source ends the run with
\* status 1 with no SMTP connection opened and no recipient attempted.
C9_UnreadableSourceFatal ==
  (BatchMode /\ ~csv_readable) =>
    /\ wire = <<>>
    /\ session = "none"
    /\ attempts = <<>>
    /\ handed = <<>>
    /\ exitCode # 0
    /\ (pc \notin {"run", "b_load_csv"}) => (Finished /\ exitCode = 1)

C9_Witness ==
  /\ BatchMode
  /\ ~csv_readable
  /\ Finished
  /\ LoggedError("Error loading CSV")

\* C10: the records loaded are exactly the rows of the table whose Email cell
\* is present and non-empty, in table order; every message handed to the
\* server is addressed to the Email of such a row.
C10_SourceYieldsRowsWithEmail ==
  BatchMode =>
    LET valid == {r \in 1..Len(csv_rows) :
                    /\ "Email" \in DOMAIN csv_rows[r]
                    /\ csv_rows[r]["Email"] \notin {None, ""}}
    IN /\ Len(data) = Cardinality(valid)
       /\ \E f \in [1..Len(data) -> 1..Len(csv_rows)] :
            /\ \A a, b \in 1..Len(data) : a < b => f[a] < f[b]
            /\ {f[k] : k \in 1..Len(data)} = valid
            /\ \A k \in 1..Len(data) : data[k] = csv_rows[f[k]]
            /\ \A j \in 1..Len(handed) :
                 handed[j].msg.To = csv_rows[f[handed[j].idx]]["Email"]

C10_Witness ==
  /\ BatchMode
  /\ Finished
  /\ Len(csv_rows) = 2
  /\ "Email" \in DOMAIN csv_rows[1]
  /\ csv_rows[1]["Email"] = ""
  /\ Len(data) = 1
  /\ Len(handed) = 1
  /\ handed[1].msg.To = "b@x"

\* What the log of a run reports: the number of records with a given event.
CountLogged(event) == Cardinality({k \in 1..Len(log) : log[k].event = event})
CountOutcome(o) == Cardinality({k \in 1..Len(outcome) : outcome[k] = o})

\* C11: a batch run that ends with status 0 reports how many recipients were
\* delivered and how many failed, the two adding up to the number of valid
\* records (read in the most favourable way: the per-recipient log records
\* are the report).
C11_CompletedRunReportsCounts ==
  (BatchMode /\ Finished /\ exitCode = 0) =>
    /\ CountLogged("Sent email to") = CountOutcome("delivered")
    /\ CountLogged("Error sending email to") = CountOutcome("failed")
    /\ CountLogged("Sent email to") + CountLogged("Error sending email to") = Len(data)

\* C12: every run terminates: the process eventually exits, whatever the
\* server does.
C12_RunTerminates == <>Finished

\* C13: a batch run connects at most once; every send comes after connect,
\* starttls and login, each successful and in that order, with nothing but
\* sends in between; while the loop runs and the connection was not lost,
\* the session stays authenticated.
C13_OneSessionPerRun ==
  BatchMode =>
    /\ Cardinality({k \in 1..Len(wire) : wire[k].op = "connect"}) <= 1
    /\ (Len(handed) > 0 \/ \E k \in 1..Len(wire) : wire[k].op = "send") =>
         /\ Len(wire) >= 3
         /\ SubSeq(wire, 1, 3) = <<Op("connect", "ok"), Op("starttls", "ok"), Op("login", "ok")>>
    /\ \A k \in 1..Len(wire) :
         wire[k].op = "send" => \A m \in 4..k : wire[m].op = "send"
    /\ (pc \in {"b_loop", "b_send"} /\ ~SessionLost) => session = "authed"

C13_Witness ==
  /\ BatchMode
  /\ Finished
  /\ wire = <<Op("connect", "ok"), Op("starttls", "ok"), Op("login", "ok"),
              Op("send", "error"), Op("send", "ok"), Op("quit", "ok"), Op("close", "ok")>>

\* C14: recipients are taken one at a time in the order of the loaded
\* records: an attempt begins only at the head of the loop, when every
\* earlier attempt has ended in its outcome, and it is the attempt on the
\* next record.
C14_SequentialInOrder ==
  [][(BatchMode /\ attempts' # attempts) =>
       /\ pc = "b_loop"
       /\ Len(outcome) = Len(attempts)
       /\ attempts' = Append(attempts, Len(attempts) + 1)
       /\ Len(handed') <= Len(attempts)]_vars

C14_Witness ==
  /\ BatchMode
  /\ pc = "b_send"
  /\ attempts = <<1, 2>>
  /\ outcome = <<"delivered">>
  /\ Len(handed) = 1

\* The record and the address of recipient r, as the templates and the To
\* header get them.
RecordOf(r) == IF SingleMode THEN SafeData(single_data, single_email) ELSE SafeRow(data[r])
AddressOf(r) == IF SingleMode THEN single_email ELSE data[r]["Email"]

\* C15: every message handed to the server belongs to an attempted recipient
\* whose rendering succeeds, is addressed to that recipient's one address,
\* and carries the subject and body rendered from that recipient's record;
\* messages are handed in the order of the attempts, one per recipient.
C15_MessageFromOwnRecord ==
  \A j \in 1..Len(handed) :
    LET r == handed[j].idx
        m == handed[j].msg
    IN /\ Attempted(r)
       /\ \A h \in 1..Len(handed) : h < j => handed[h].idx < r
       /\ ~RenderFails(r)
       /\ m.To = AddressOf(r)
       /\ m.Subject = Render(header_template, RecordOf(r))
       /\ m.Html = Render(body_template, RecordOf(r))

C15_Witness ==
  /\ BatchMode
  /\ Finished
  /\ Len(handed) = 2
  /\ handed[1].msg.To = "a@x"
  /\ handed[2].msg.To = "b@x"
  /\ handed[1].msg.Subject # handed[2].msg.Subject

Opened == \E k \in 1..Len(wire) : wire[k] = Op("connect", "ok")

\* C16: a process that exits after it opened a connection has closed it, as
\* the last operation on the connection; nothing is sent after a close, and
\* no message is handed to a session that is closed or not yet opened.
C16_SessionClosedOnExit ==
  /\ (Finished /\ Opened) =>
       /\ session = "closed"
       /\ wire[Len(wire)] = Op("close", "ok")
  /\ \A k \in 1..Len(wire) :
       wire[k].op = "close" => \A m \in (k + 1)..Len(wire) : wire[m].op # "send"
  /\ \A j \in 1..Len(handed) : handed[j].session \notin {"none", "closed"}
  /\ (session = "closed") => pc \in {"b_return", "s_return", "exited"}

C16_Witness ==
  /\ Finished
  /\ exitCode = 1
  /\ Opened
  /\ Len(handed) = 1
  /\ outcome = <<"failed">>
  /\ session = "closed"

BatchPcs == {"b_load_csv", "b_load_body", "b_load_header", "b_connect", "b_starttls",
             "b_login", "b_loop", "b_send", "b_return"}
SinglePcs == {"s_load_body", "s_load_header", "s_connect", "s_starttls", "s_login",
              "s_build", "s_send", "s_end", "s_return"}

\* C17: with a single address the run never reads the table, never enters
\* the batch path and hands at most one message, addressed to that address,
\* whether or not a table path was given; without one it never enters the
\* single path.
C17_ModesExclusive ==
  /\ SingleMode =>
       /\ pc \notin BatchPcs
       /\ csv_rows = <<>>
       /\ data = <<>>
       /\ CountLogged("Loaded valid email entries from CSV") = 0
       /\ CountLogged("Error loading CSV") = 0
       /\ CountLogged("Email campaign completed") = 0
       /\ Len(handed) <= 1
       /\ \A j \in 1..Len(handed) : handed[j].msg.To = single_email
  /\ BatchMode =>
       /\ pc \notin SinglePcs
       /\ CountLogged("Successfully sent single email to") = 0
       /\ CountLogged("Single email sent successfully") = 0

C17_Witness ==
  /\ SingleMode
  /\ csv_path # None
  /\ csv_readable
  /\ Finished
  /\ exitCode = 0
  /\ Len(handed) = 1
  /\ handed[1].msg.To = "s@x"

====
